---- MODULE Spec2Model ----
(***************************************************************************)
(* A model of src/server.js: the Backblaze B2 session manager              *)
(* (ensureB2Authorized, ensureB2Ready, uploadFileToB2), the reports        *)
(* registry (loadReports, saveReports, reports) and the HTTP handlers      *)
(* that drive them (POST /upload, GET /config).                            *)
(*                                                                         *)
(* Execution model.  Node runs one handler segment at a time.  A segment   *)
(* runs from an event (a request arriving, a remote call returning) to     *)
(* the next await of a remote call.  Continuations of an already settled   *)
(* promise are microtasks: they all run before the next event is taken.    *)
(* The model has one action per segment; the guard Drained keeps events    *)
(* out while a continuation of a settled promise is still pending.         *)
(*                                                                         *)
(* Text that the code transforms (names, URLs) is a sequence of one-       *)
(* character strings; text that is only compared is a TLA+ string.         *)
(* Time is in milliseconds, as Date.now().                                 *)
(***************************************************************************)
EXTENDS Integers, Sequences, FiniteSets, TLC

\* ------------------------------------------------------------------ bounds

\* Number of HTTP requests the clients send in one run.
NumReqs == 2
\* Number of times the clock is observed to advance.
MaxTicks == 1

Reqs == 1..NumReqs
\* The caller id of ensureB2Ready's own call of ensureB2Authorized(true).
InitCaller == 0
Callers == Reqs \cup {InitCaller}

\* ------------------------------------------------------------ text helpers

RECURSIVE Flatten(_)
\* The concatenation of a sequence of texts.
Flatten(parts) ==
  IF parts = <<>> THEN <<>> ELSE Head(parts) \o Flatten(Tail(parts))

RECURSIVE SplitSlash(_)
\* String.prototype.split('/'): the segments between the separators; an
\* empty text gives one empty segment.
SplitSlash(s) ==
  IF \A i \in 1..Len(s) : s[i] # "/"
  THEN <<s>>
  ELSE LET k == CHOOSE i \in 1..Len(s) :
                   s[i] = "/" /\ \A j \in 1..(i - 1) : s[j] # "/"
       IN <<SubSeq(s, 1, k - 1)>> \o SplitSlash(SubSeq(s, k + 1, Len(s)))

RECURSIVE JoinSlash(_)
\* Array.prototype.join('/').
JoinSlash(segs) ==
  IF segs = <<>> THEN <<>>
  ELSE IF Len(segs) = 1 THEN Head(segs)
  ELSE Head(segs) \o <<"/">> \o JoinSlash(Tail(segs))

\* The characters encodeURIComponent leaves as they are (those the model uses).
Unreserved ==
  {"a", "b", "c", "d", "e", "f", "i", "l", "n", "o", "p", "q", "r", "t", "u",
   "0", "1", "2", "3", ".", "-", "_"}

\* The UTF-8 percent escape of a reserved character.
PercentEscape(ch) ==
  CASE ch = " " -> <<"%", "2", "0">>
    [] ch = "/" -> <<"%", "2", "F">>
    [] ch = ":" -> <<"%", "3", "A">>
    [] ch = "%" -> <<"%", "2", "5">>

RECURSIVE encodeURIComponent(_)
encodeURIComponent(s) ==
  IF s = <<>> THEN <<>>
  ELSE (IF Head(s) \in Unreserved THEN <<Head(s)>> ELSE PercentEscape(Head(s)))
       \o encodeURIComponent(Tail(s))

\* base.replace(/\/$/, ''): one trailing slash is dropped.
StripTrailingSlash(s) ==
  IF s # <<>> /\ s[Len(s)] = "/" THEN SubSeq(s, 1, Len(s) - 1) ELSE s

\* Each segment of the storage name is escaped; the separators are kept.
SafePath(targetName) ==
  LET segs == SplitSlash(targetName)
  IN JoinSlash([i \in 1..Len(segs) |-> encodeURIComponent(segs[i])])

\* `${base}/file/${safeBucket}/${safePath}`.  A bucket name that is missing
\* (<<>>) is undefined, which encodeURIComponent turns into text.
FileUrl(publicBaseUrl, bucketName, targetName) ==
  Flatten(<<StripTrailingSlash(publicBaseUrl),
            <<"/", "f", "i", "l", "e", "/">>,
            encodeURIComponent(IF bucketName = <<>>
                               THEN <<"u", "n", "d", "e", "f", "i", "n", "e", "d">>
                               ELSE bucketName),
            <<"/">>,
            SafePath(targetName)>>)

\* --------------------------------------------------------- remote failures

\* The failures a remote call can end with.  Each is the error object the
\* library rejects with: hasResp says err.response is present, respCode is
\* err.response.data.code, respStatus is err.response.status, code and
\* status are err.code and err.status ("" and 0 stand for undefined).
ErrNames == {"expired", "bad_code", "unauthorized", "unavailable"}

ErrInfo(e) ==
  CASE e = "expired" ->
         [hasResp |-> TRUE, respCode |-> "expired_auth_token",
          respStatus |-> 401, code |-> "ERR_BAD_REQUEST", status |-> 0]
    [] e = "bad_code" ->
         [hasResp |-> FALSE, respCode |-> "", respStatus |-> 0,
          code |-> "bad_auth_token", status |-> 0]
    [] e = "unauthorized" ->
         [hasResp |-> TRUE, respCode |-> "unauthorized",
          respStatus |-> 401, code |-> "ERR_BAD_REQUEST", status |-> 0]
    [] e = "unavailable" ->
         [hasResp |-> TRUE, respCode |-> "service_unavailable",
          respStatus |-> 503, code |-> "ERR_BAD_RESPONSE", status |-> 0]
    [] e = "not_configured" ->
         [hasResp |-> FALSE, respCode |-> "", respStatus |-> 0,
          code |-> "", status |-> 0]

isExpiredAuthError(err) ==
  LET code == IF err.hasResp /\ err.respCode # "" THEN err.respCode ELSE err.code
      status == IF err.hasResp /\ err.respStatus # 0 THEN err.respStatus ELSE err.status
  IN code = "expired_auth_token" \/ code = "bad_auth_token" \/ status = 401

\* ------------------------------------------------------------- constants

\* 1000 * 60 * 60 * 23 milliseconds.
B2_AUTH_TTL_MS == 1000 * 60 * 60 * 23

\* The steps by which the clock is seen to advance between two events: one
\* millisecond less than the TTL, and the TTL.
TickSteps == {B2_AUTH_TTL_MS - 1, B2_AUTH_TTL_MS}

\* Texts of the model.
T_file == <<"f", "i", "l", "e">>
T_report == <<"r", "e", "p", "o", "r", "t", ".", "p", "d", "f">>
T_report1 == <<"r", "e", "p", "o", "r", "t", "1", ".", "p", "d", "f">>
T_nested == <<"a", "/", "b", " ", "c", ".", "p", "d", "f">>
T_bucket == <<"q", "r", " ", "b">>
T_other == <<"o", "t">>
T_download == <<"f", "0", "0", "1", ".", "b", "2">>
T_cdn == <<"c", "d", "n", ".", "q", "r", "/">>

\* The bytes of the uploaded files: empty, "PDF-BYTES" and "OTHER".
B_empty == <<>>
B_pdf == <<80, 68, 70, 45, 66, 89, 84, 69, 83>>
B_other == <<79, 84, 72, 69, 82>>

\* crypto.createHash('sha256').update(buffer).digest('hex') on those bytes.
Sha256Hex(buffer) ==
  CASE buffer = B_empty ->
         "e3b0c44298fc1c149afbf4c8996fb92427ae41e4649b934ca495991b7852b855"
    [] buffer = B_pdf ->
         "ca7554f0db6ddfa48b2149feffc0dcbf5ed01b110297d7cd8d919185fa842098"
    [] buffer = B_other ->
         "1c55d9b826e8dfa994370e306ae8dc2e849f3e003381dc848a0b95f782c0c0e3"

\* ------------------------------------------------------------------ state

VARIABLES
  \* process.env, read once at startup: whether the key id and the
  \* application key are set, the bucket id and name ("" and <<>>: not set)
  \* and the public base URL override.
  b2KeyId, b2AppKey, b2BucketIdEnv, b2BucketNameEnv, b2PublicBaseOverride,
  \* The session manager's module-level state.
  b2,                   \* whether the B2 client instance exists
  b2Config,             \* [enabled, bucketId, bucketName, publicBaseUrl]
  b2InitPromise,        \* "null", "pending", "resolved" or "rejected"
  b2AuthPromise,        \* 0 (null) or the handshake whose promise is in the slot
  b2LastAuthAt,         \* 0 or the time of the last successful handshake
  b2LastAuthResponse,   \* 0 (null) or the handshake whose response is cached
  \* The body of ensureB2Ready's async function: where it stands.
  initPc,               \* "none", "awaitAuth", "awaitList", "awaitGet", "done"
  initDownloadUrl,      \* its local downloadUrl
  \* The registry and its file, and the files the remote store holds.
  reports, storeFile, remoteFiles,
  \* The order in which the registry object lists its keys, the kind of file
  \* it was loaded from, and the fingerprints whose record was written by an
  \* upload that computed the fingerprint from the bytes.
  keyOrder, loadedFrom, computed,
  \* The answer of the last GET /verify, GET /file or GET /api/reports, until
  \* the client has read it.
  lookup,
  \* The promises of the handshakes (calls of b2.authorize()) that a caller
  \* still awaits: each is pending, or has returned, or has failed.
  authOutcome,
  \* Date.now(), and how often it was seen to advance.
  now, ticks,
  \* The requests: position, input, the handshake awaited, the attempt of
  \* uploadFileToB2 that is running, the response sent.
  pc, req, waitOn, attempt, resp,
  \* History: what each request did, each caller's call of
  \* ensureB2Authorized, and the remote calls of ensureB2Ready.
  trace, lastCall, initStats

envVars == <<b2KeyId, b2AppKey, b2BucketIdEnv, b2BucketNameEnv, b2PublicBaseOverride>>
authVars == <<b2, b2AuthPromise, b2LastAuthAt, b2LastAuthResponse, authOutcome, lastCall>>
initVars == <<b2Config, b2InitPromise, initPc, initDownloadUrl, initStats>>
regVars == <<reports, storeFile, remoteFiles, keyOrder, loadedFrom, computed, lookup>>
clockVars == <<now, ticks>>
reqVars == <<pc, req, attempt, resp, trace>>
vars == <<envVars, authVars, initVars, regVars, clockVars, reqVars, waitOn>>

\* ----------------------------------------------------------- value shapes

EmptyMap == [x \in {} |-> FALSE]

\* The map m with key k set to v.
\* A write that leaves a key that is there as it is.
PutIfAbsent(m, k, v) ==
  IF k \in DOMAIN m THEN m ELSE [x \in DOMAIN m \cup {k} |-> IF x = k THEN v ELSE m[x]]

Put(m, k, v) == [x \in DOMAIN m \cup {k} |-> IF x = k THEN v ELSE m[x]]

\* The map m without key k.
Remove(m, k) == [x \in DOMAIN m \ {k} |-> m[x]]

Pending == [st |-> "pending", err |-> "", session |-> 0]
Returned(h) == [st |-> "ok", err |-> "", session |-> h]
Failed(e) == [st |-> "fail", err |-> e, session |-> 0]
NoOutcome == [st |-> "", err |-> "", session |-> 0]

\* A promise whose rejection wakes no caller.
SettledReturned(h) == h \in DOMAIN authOutcome /\ authOutcome[h].st = "ok"

\* The handshakes b2.authorize() has been called for and that have not
\* returned.
InFlight == {h \in DOMAIN authOutcome : authOutcome[h].st = "pending"}
Settled(h) == h \in DOMAIN authOutcome /\ authOutcome[h].st # "pending"

\* The response of a handshake: auth.data.
AuthData(h) == [downloadUrl |-> T_download, accountId |-> "acct"]

\* A bucket as the remote store describes it.  NoBucket stands for
\* undefined or null; a description may lack bucketId and bucketName
\* ("" and <<>>).
Bucket(id, name) == [present |-> TRUE, bucketId |-> id, bucketName |-> name]
NoBucket == [present |-> FALSE, bucketId |-> "", bucketName |-> <<>>]
TheBucket == Bucket("bkt1", T_bucket)
OtherBucket == Bucket("bkt2", T_other)
\* A payload that holds a list of buckets instead of one bucket's fields.
ListPayload == Bucket("", <<>>)

\* What b2.listBuckets can return in list.data.buckets.
BucketLists == {<<>>, <<TheBucket>>, <<OtherBucket, TheBucket>>, <<OtherBucket>>}
\* What b2.getBucket can return in gb.data.
GetBucketData == {NoBucket, TheBucket, ListPayload}

\* The inputs of the requests.  A POST /upload carries req.file (or not:
\* hasFile) with buffer, originalname and mimetype, and the body fields hash
\* and targetName ("" and <<>>: absent).
Input(kind, hasFile, buffer, originalname, mimetype, hash, targetName) ==
  [kind |-> kind, hasFile |-> hasFile, buffer |-> buffer,
   originalname |-> originalname, mimetype |-> mimetype,
   hash |-> hash, targetName |-> targetName]
NoInput == Input("none", FALSE, <<>>, <<>>, "", "", <<>>)
ConfigInput == Input("config", FALSE, <<>>, <<>>, "", "", <<>>)
UploadInputs ==
  { Input("upload", FALSE, <<>>, <<>>, "", "", <<>>),
    Input("upload", TRUE, B_empty, T_report, "application/pdf", "", <<>>),
    Input("upload", TRUE, B_pdf, T_report, "application/pdf", "", <<>>),
    Input("upload", TRUE, B_other, <<>>, "", "123abc", T_nested) }
RequestInputs == UploadInputs \cup {ConfigInput}
\* The first request to arrive is any of these; a request that arrives while
\* or after it is served reads the configuration or uploads the PDF.
LaterInputs ==
  {ConfigInput, Input("upload", TRUE, B_pdf, T_report, "application/pdf", "", <<>>)}
InputsOf(r) == IF r = 1 THEN RequestInputs ELSE LaterInputs

\* A response: the status and the keys the JSON body carries, with the
\* values of those the model reads.
Response(status, keys, hash, fileName, fileUrl, mimeType, size) ==
  [status |-> status, keys |-> keys, hash |-> hash, fileName |-> fileName,
   fileUrl |-> fileUrl, mimeType |-> mimeType, size |-> size,
   b2Enabled |-> FALSE, b2BucketName |-> <<>>, b2PublicBaseUrl |-> <<>>]
NoResponse == Response(0, {}, "", <<>>, <<>>, "", 0)
ErrorResponse(status) == Response(status, {"ok", "message"}, "", <<>>, <<>>, "", 0)

\* A registry record; <<>>, "" and 0 stand for a missing field.
Record(fileName, status, fileUrl, mimeType, createdAt) ==
  [fileName |-> fileName, status |-> status, fileUrl |-> fileUrl,
   mimeType |-> mimeType, createdAt |-> createdAt]

\* A caller's call of ensureB2Authorized: the argument, what the call did, the
\* handshake awaited, the response that was cached when it was made, and what
\* it returned or threw.
NoCall ==
  [force |-> FALSE, decision |-> "", h |-> 0, cachedResp |-> 0,
   got |-> "", err |-> "", session |-> 0]

NoTrace ==
  [attempts |-> 0, authStarted |-> 0, urlCalls |-> 0, uploadCalls |-> 0,
   forcedCalls |-> 0, failed |-> "", failedStep |-> "", failedAttempt |-> 0,
   sent |-> 0, wrote |-> FALSE, readySeen |-> FALSE,
   ready |-> [enabled |-> FALSE, bucketId |-> "", bucketName |-> <<>>,
              publicBaseUrl |-> <<>>]]

\* ---------------------------------------------------------------- registry

\* The record loadReports falls back to.
SeedReports(t) ==
  [k \in {"123abc"} |-> Record(T_report1, "seed", <<>>, "", t)]

\* The store file: "missing", "unreadable", "text" (not JSON), "scalar" (the
\* JSON of a number, a string, a boolean or null), "array" (the JSON of an
\* array) or "object" (the JSON of an object, with its keys in their order).
File(kind, keys, data) == [kind |-> kind, keys |-> keys, data |-> data]
EarlierReports ==
  [k \in {Sha256Hex(B_pdf)} |->
     Record(T_report, "original", FileUrl(T_download, T_bucket, T_report),
            "application/pdf", 1)]
InitialFiles == {File("missing", <<>>, EmptyMap)}

\* The number of a key that is a canonical array index (decimal digits
\* without a leading zero, below 2^32 - 1), and -1 for every other key.  Of
\* the keys of the model only these two are array indices.
ArrayIndex(k) ==
  CASE k = "7" -> 7
    [] k = "10" -> 10
    [] OTHER -> -1

IsArrayIndex(k) == ArrayIndex(k) >= 0

RECURSIVE InsertKey(_, _)
\* The own keys of a plain object after key k is created: the array indices
\* come first, in ascending order, then the other keys in the order of
\* their creation.  Object.entries and JSON.stringify list them so.
InsertKey(keys, k) ==
  IF ArrayIndex(k) < 0 THEN Append(keys, k)
  ELSE IF keys # <<>> /\ ArrayIndex(Head(keys)) >= 0
                    /\ ArrayIndex(Head(keys)) < ArrayIndex(k)
  THEN <<Head(keys)>> \o InsertKey(Tail(keys), k)
  ELSE <<k>> \o keys

RECURSIVE OwnKeys(_)
\* The own keys of the object JSON.parse builds from a text that lists the
\* keys in this order.
OwnKeys(keys) ==
  IF keys = <<>> THEN <<>>
  ELSE InsertKey(OwnKeys(SubSeq(keys, 1, Len(keys) - 1)), keys[Len(keys)])

\* Lines 199-206: what JSON.parse returns is the registry when it is an
\* object (an array is one); otherwise the seed map is.
loadReports(file, t) ==
  IF file.kind \in {"object", "array"} THEN file.data ELSE SeedReports(t)
\* The keys of the loaded registry, in the order Object.entries lists them.
loadedKeys(file) ==
  IF file.kind \in {"object", "array"} THEN OwnKeys(file.keys) ELSE <<"123abc">>

\* JSON.stringify(data): of an array it keeps the indexed elements only (the
\* fingerprints that are array indices; the holes before them are written
\* as null, which the file of the model leaves out).
Stringify(asArray, keys, data) ==
  IF asArray
  THEN File("array", SelectSeq(keys, IsArrayIndex),
            [k \in {x \in DOMAIN data : IsArrayIndex(x)} |-> data[k]])
  ELSE File("object", keys, data)

\* How fs.writeFileSync of line 211 can end: the whole text is written; the
\* file cannot be opened and stays as it was; or the file is opened, which
\* truncates it, and the write fails part-way (disk full, file size limit).
WriteOutcomes == {"written", "refused", "partial"}

\* saveReports: lines 209-215.  The failure is caught and logged.  A file
\* that was truncated holds a proper beginning of the text, possibly
\* nothing, which is not JSON.
saveReports(file, text, write) ==
  IF write = "written" THEN text
  ELSE IF write = "refused" THEN file
  ELSE File("text", <<>>, EmptyMap)

\* The answer of a GET handler that reads the registry; none so far.
NoLookup ==
  [op |-> "", hash |-> "", status |-> 0, found |-> FALSE, location |-> <<>>,
   list |-> <<>>]

\* ---------------------------------------------------- ensureB2Authorized

\* The test of line 81 with <= for <.
CacheValidInclusive(force, t, lastAt, lastResp) ==
  ~force /\ lastAt # 0 /\ (t - lastAt) <= B2_AUTH_TTL_MS /\ lastResp # 0

\* The test of line 81: the cached response is returned.
CacheValid(force, t, lastAt, lastResp) ==
  ~force /\ lastAt # 0 /\ (t - lastAt) < B2_AUTH_TTL_MS /\ lastResp # 0

\* ensureB2Authorized without the test of lines 84-86: a call never returns
\* the promise in the slot.
AuthDecisionNoJoin(force) ==
  IF ~(b2KeyId /\ b2AppKey) THEN "throw"
  ELSE IF CacheValid(force, now, b2LastAuthAt, b2LastAuthResponse) THEN "cached"
  ELSE "started"

\* What a call of ensureB2Authorized(force) does: it throws, returns the
\* cached response, returns the promise in the slot, or starts a handshake.
AuthDecision(force) ==
  IF ~(b2KeyId /\ b2AppKey) THEN "throw"
  ELSE IF CacheValid(force, now, b2LastAuthAt, b2LastAuthResponse) THEN "cached"
  ELSE IF b2AuthPromise # 0 THEN "joined"
  ELSE "started"

\* A handshake is named by a number; a new one takes the least number that
\* names no handshake the state still refers to.
UsedHandshakes ==
  {b2LastAuthResponse, b2AuthPromise} \cup DOMAIN authOutcome
    \cup {waitOn[c] : c \in Callers}
    \cup {lastCall[c].h : c \in Callers}
    \cup {lastCall[c].cachedResp : c \in Callers}
    \cup {lastCall[c].session : c \in Callers}
FreshHandshake ==
  CHOOSE h \in 1..(Cardinality(UsedHandshakes) + 1) :
    h \notin UsedHandshakes /\ \A k \in 1..(h - 1) : k \in UsedHandshakes

\* The handshake whose promise the call awaits (0: none).
AuthHandle(force) ==
  LET d == AuthDecision(force)
  IN IF d = "started" THEN FreshHandshake
     ELSE IF d = "joined" THEN b2AuthPromise
     ELSE 0

\* The call, up to its await: caller c calls ensureB2Authorized(force).
CallEnsureAuthorized(c, force) ==
  LET d == AuthDecision(force)
      h == AuthHandle(force)
  IN /\ authOutcome' = IF d = "started" THEN Put(authOutcome, h, Pending)
                       ELSE authOutcome
     /\ b2AuthPromise' = IF d = "started" THEN h ELSE b2AuthPromise
     /\ b2' = (b2 \/ d = "started")
     /\ waitOn' = [waitOn EXCEPT ![c] = h]
     /\ lastCall' = [lastCall EXCEPT ![c] =
          [force |-> force, decision |-> d, h |-> h,
           cachedResp |-> b2LastAuthResponse,
           got |-> IF d = "cached" THEN "ok" ELSE IF d = "throw" THEN "fail" ELSE "",
           err |-> IF d = "throw" THEN "not_configured" ELSE "",
           session |-> IF d = "cached" THEN b2LastAuthResponse ELSE 0]]
     /\ UNCHANGED <<b2LastAuthAt, b2LastAuthResponse>>

\* Caller c's await of handshake waitOn[c] ends: the call returns the
\* response or throws the failure.  A settled promise that no caller awaits
\* any more is dropped.
AwaitEnds(c) ==
  LET h == waitOn[c]
      o == authOutcome[h]
  IN /\ lastCall' = [lastCall EXCEPT ![c].got = o.st, ![c].err = o.err,
                                      ![c].session = o.session]
     /\ waitOn' = [waitOn EXCEPT ![c] = 0]
     /\ authOutcome' = IF \E c2 \in Callers \ {c} : waitOn[c2] = h
                       THEN authOutcome
                       ELSE Remove(authOutcome, h)
     /\ UNCHANGED <<b2, b2AuthPromise, b2LastAuthAt, b2LastAuthResponse>>

\* A continuation of a settled promise is pending for request r.
ReqPending(r) ==
  \/ pc[r] = "retry"
  \/ pc[r] = "answered"
  \/ pc[r] = "authorized"
  \/ pc[r] = "awaitReady" /\ b2InitPromise \in {"resolved", "rejected"}
  \/ pc[r] = "awaitAuth" /\ Settled(waitOn[r])
InitPending == initPc = "awaitAuth" /\ Settled(waitOn[InitCaller])
\* The microtask queue is empty and no synchronous handler is running: the
\* next event can be taken.
Drained == ~InitPending /\ (\A r \in Reqs : ~ReqPending(r)) /\ lookup.op = ""

\* A handshake that stores its outcome and the time whether b2.authorize()
\* returned or failed.
StoresAlways(o) == TRUE

\* Lines 90-95: the statements after `await b2.authorize()` run only when it
\* returned.
StoresSession(o) == o.st = "ok"

\* b2.authorize() of handshake h returns or fails.  The async function of
\* lines 90-95 stores the response and the time; the finally of the caller
\* that started the handshake, the first continuation of its promise,
\* clears the slot.
AuthComplete(h, o) ==
  /\ Drained
  /\ h \in InFlight
  /\ authOutcome' = [authOutcome EXCEPT ![h] = o]
  /\ b2LastAuthAt' = IF StoresSession(o) THEN now ELSE b2LastAuthAt
  /\ b2LastAuthResponse' = IF StoresSession(o) THEN o.session ELSE b2LastAuthResponse
  /\ b2AuthPromise' = 0
  /\ UNCHANGED <<b2, lastCall, waitOn, envVars, initVars, regVars, clockVars, reqVars>>

\* ----------------------------------------------------------- ensureB2Ready

\* ensureB2Ready without the test of line 137.
InitNeverStarted(p) == FALSE

\* ensureB2Ready that starts over once the earlier run has ended.
InitInProgress(p) == p = "pending"

\* Line 137: the init promise exists.
InitStarted(p) == p # "null"

\* Line 140: credentials or bucket are not configured.
NotConfigured ==
  ~b2KeyId \/ ~b2AppKey \/ (b2BucketIdEnv = "" /\ b2BucketNameEnv = <<>>)

\* ensureB2Ready without the catch handler of lines 184-193.
InitSettleUncaught(threw) == IF threw THEN "rejected" ELSE "resolved"

\* Lines 184-193: the catch handler turns a failure of the body into a
\* fulfilled promise.
InitSettle(threw) == "resolved"

\* `if (!found)`: found is an object.
Found(x) == x.present

\* buckets.find(b => b.bucketId === bucketId), or the same by bucketName: the
\* first bucket that matches, or undefined.
FindBucket(buckets, byId, wanted) ==
  LET Match(b) == IF byId THEN b.bucketId = wanted ELSE b.bucketName = wanted
  IN IF \E i \in 1..Len(buckets) : Match(buckets[i])
     THEN buckets[CHOOSE i \in 1..Len(buckets) :
                    Match(buckets[i]) /\ \A j \in 1..(i - 1) : ~Match(buckets[j])]
     ELSE NoBucket

\* Lines 155-159.
FindConfigured(buckets) ==
  IF b2BucketIdEnv # "" THEN FindBucket(buckets, TRUE, b2BucketIdEnv)
  ELSE IF b2BucketNameEnv # <<>> THEN FindBucket(buckets, FALSE, b2BucketNameEnv)
  ELSE NoBucket

\* b2PublicBaseOverride || downloadUrl
PublicBaseUrl(downloadUrl) ==
  IF b2PublicBaseOverride # <<>> THEN b2PublicBaseOverride ELSE downloadUrl

\* The body ends: line 182-183.
InitSucceed(bucketId, bucketName) ==
  /\ b2Config' = [enabled |-> TRUE, bucketId |-> bucketId, bucketName |-> bucketName,
                  publicBaseUrl |-> PublicBaseUrl(initDownloadUrl')]
  /\ b2InitPromise' = InitSettle(FALSE)
  /\ initPc' = "done"

\* The body throws: the catch handler of lines 184-193.
InitFail ==
  /\ b2Config' = [b2Config EXCEPT !.enabled = FALSE]
  /\ b2InitPromise' = InitSettle(TRUE)
  /\ initPc' = "done"

\* The first call of ensureB2Ready runs the body up to its first await.
StartInit ==
  IF NotConfigured
  THEN /\ b2Config' = [b2Config EXCEPT !.enabled = FALSE]
       /\ b2InitPromise' = InitSettle(FALSE)
       /\ initPc' = "done"
       /\ initStats' = [initStats EXCEPT !.runs = @ + 1]
       /\ UNCHANGED <<initDownloadUrl, authVars, waitOn>>
  ELSE /\ CallEnsureAuthorized(InitCaller, TRUE)
       /\ UNCHANGED <<b2Config, initDownloadUrl>>
       /\ b2InitPromise' = "pending"
       /\ initPc' = "awaitAuth"
       /\ initStats' = [initStats EXCEPT
            !.runs = @ + 1,
            !.authStarted = @ + (IF AuthDecision(TRUE) = "started" THEN 1 ELSE 0)]

\* A call of ensureB2Ready().
CallEnsureB2Ready ==
  IF InitStarted(b2InitPromise)
  THEN UNCHANGED <<initVars, authVars, waitOn>>
  ELSE StartInit

\* Line 144 returns or throws.
InitAuthCont ==
  /\ InitPending
  /\ LET o == authOutcome[waitOn[InitCaller]]
     IN /\ AwaitEnds(InitCaller)
        /\ initDownloadUrl' = IF o.st = "ok" THEN AuthData(o.session).downloadUrl
                              ELSE initDownloadUrl
        /\ IF o.st = "fail"
           THEN InitFail /\ initStats' = [initStats EXCEPT !.failure = "authorize"]
           ELSE IF b2BucketIdEnv # "" /\ b2BucketNameEnv # <<>>
           THEN InitSucceed(b2BucketIdEnv, b2BucketNameEnv) /\ UNCHANGED initStats
           ELSE /\ initPc' = "awaitList"
                /\ initStats' = [initStats EXCEPT !.listCalls = @ + 1]
                /\ UNCHANGED <<b2Config, b2InitPromise>>
  /\ UNCHANGED <<envVars, regVars, clockVars, reqVars>>

ListOutcomes ==
  {[ok |-> FALSE, buckets |-> <<>>]} \cup {[ok |-> TRUE, buckets |-> l] : l \in BucketLists}

\* b2.listBuckets returns or fails: lines 153-175.
ListComplete(o) ==
  /\ Drained
  /\ initPc = "awaitList"
  /\ initDownloadUrl' = initDownloadUrl
  /\ LET found == IF o.ok THEN FindConfigured(o.buckets) ELSE NoBucket
     IN IF Found(found)
        THEN InitSucceed(found.bucketId, found.bucketName) /\ UNCHANGED initStats
        ELSE /\ initPc' = "awaitGet"
             /\ initStats' = [initStats EXCEPT !.getCalls = @ + 1]
             /\ UNCHANGED <<b2Config, b2InitPromise>>
  /\ UNCHANGED <<authVars, waitOn, envVars, regVars, clockVars, reqVars>>

GetOutcomes ==
  {[ok |-> FALSE, data |-> NoBucket]} \cup {[ok |-> TRUE, data |-> d] : d \in GetBucketData}

\* b2.getBucket returns or fails: lines 166-179.
GetComplete(o) ==
  /\ Drained
  /\ initPc = "awaitGet"
  /\ initDownloadUrl' = initDownloadUrl
  /\ LET found == IF o.ok THEN o.data ELSE NoBucket
     IN IF Found(found)
        THEN InitSucceed(found.bucketId, found.bucketName) /\ UNCHANGED initStats
        ELSE InitFail /\ initStats' = [initStats EXCEPT !.failure = "discovery"]
  /\ UNCHANGED <<authVars, waitOn, envVars, regVars, clockVars, reqVars>>

\* ------------------------------------------------------------- POST /upload

\* Lines 265-270.
Fingerprint(i) == IF i.hash # "" THEN i.hash ELSE Sha256Hex(i.buffer)
OriginalName(i) == IF i.originalname # <<>> THEN i.originalname ELSE T_file
TargetName(i) == IF i.targetName # <<>> THEN i.targetName ELSE OriginalName(i)
MimeType(i) == IF i.mimetype # "" THEN i.mimetype ELSE "application/octet-stream"

\* Line 256: the request carries no file.
NoFile(i) == ~i.hasFile

\* uploadFileToB2 with the catch of lines 127-132 around every attempt.
RetryAlways(att) == TRUE

\* Lines 125-133: only a failure of attempt(false) is caught.
RetryAllowed(att) == att = 1

\* POST /upload with the write of lines 286-293 ahead of the upload's outcome.
RecordsAlways(o) == TRUE

\* Lines 272-293: the record is written after the awaited upload returned.
RecordsUpload(o) == o.st = "ok"

\* Line 295: size is req.file.size || undefined, and JSON leaves undefined out.
UploadedResponse(i, fileUrl) ==
  Response(200,
           {"ok", "hash", "fileName", "fileUrl", "mimeType"}
             \cup (IF Len(i.buffer) # 0 THEN {"size"} ELSE {}),
           Fingerprint(i), TargetName(i), fileUrl, MimeType(i), Len(i.buffer))

\* Lines 245-249.
ConfigResponse(cfg) ==
  [Response(200, {"b2Enabled", "b2BucketName", "b2PublicBaseUrl"}, "", <<>>, <<>>, "", 0)
     EXCEPT !.b2Enabled = cfg.enabled, !.b2BucketName = cfg.bucketName,
            !.b2PublicBaseUrl = cfg.publicBaseUrl]

\* Request r answers: res.status(..).json(..).
Answer(r, response, t) ==
  /\ pc' = [pc EXCEPT ![r] = "answered"]
  /\ resp' = [resp EXCEPT ![r] = response]
  /\ trace' = [trace EXCEPT ![r] = [t EXCEPT !.sent = @ + 1]]

\* A step of attempt number att fails with e: the catch of line 127 starts
\* attempt(true), or the catch of line 296 answers 502.
FailWith(r, e, step, att, t) ==
  LET t1 == [t EXCEPT !.failed = e, !.failedStep = step, !.failedAttempt = att]
  IN IF RetryAllowed(att) /\ isExpiredAuthError(ErrInfo(e))
     THEN /\ pc' = [pc EXCEPT ![r] = "retry"]
          /\ resp' = resp
          /\ trace' = [trace EXCEPT ![r] = t1]
     ELSE Answer(r, ErrorResponse(502), t1)

\* attempt(forceAuth) up to its await of ensureB2Authorized: line 112.
UploadAttempt(r, force, t) ==
  LET d == AuthDecision(force)
      t1 == [t EXCEPT !.attempts = @ + 1,
                      !.forcedCalls = @ + (IF force THEN 1 ELSE 0),
                      !.authStarted = @ + (IF d = "started" THEN 1 ELSE 0)]
  IN /\ CallEnsureAuthorized(r, force)
     /\ attempt' = [attempt EXCEPT ![r] = @ + 1]
     /\ IF d = "cached"
        THEN /\ pc' = [pc EXCEPT ![r] = "authorized"]
             /\ resp' = resp
             /\ trace' = [trace EXCEPT ![r] = t1]
        ELSE IF d = "throw"
        THEN FailWith(r, "not_configured", "authorize", attempt[r] + 1, t1)
        ELSE /\ pc' = [pc EXCEPT ![r] = "awaitAuth"]
             /\ resp' = resp
             /\ trace' = [trace EXCEPT ![r] = t1]

\* A request arrives.  POST /upload without a file answers 400; otherwise the
\* handler calls ensureB2Ready() and awaits it (lines 244, 256-260).
Arrive(r, i) ==
  /\ Drained
  /\ pc[r] = "idle"
  /\ IF r = 1 THEN TRUE ELSE pc[r - 1] # "idle"
  /\ req' = [req EXCEPT ![r] = i]
  /\ IF i.kind = "upload" /\ NoFile(i)
     THEN /\ Answer(r, ErrorResponse(400), trace[r])
          /\ UNCHANGED <<initVars, authVars, waitOn>>
     ELSE /\ CallEnsureB2Ready
          /\ pc' = [pc EXCEPT ![r] = "awaitReady"]
          /\ UNCHANGED <<resp, trace>>
  /\ UNCHANGED <<attempt, envVars, regVars, clockVars>>

\* GET /config continues after ensureB2Ready(): lines 245-249.  A rejected
\* promise would leave the request without a response.
ConfigCont(r) ==
  /\ pc[r] = "awaitReady"
  /\ req[r].kind = "config"
  /\ b2InitPromise \in {"resolved", "rejected"}
  /\ IF b2InitPromise = "rejected"
     THEN /\ pc' = [pc EXCEPT ![r] = "answered"]
          /\ UNCHANGED <<resp, trace>>
     ELSE Answer(r, ConfigResponse(b2Config),
                 [trace[r] EXCEPT !.readySeen = TRUE, !.ready = b2Config])
  /\ UNCHANGED <<req, attempt, waitOn, envVars, authVars, initVars, regVars, clockVars>>

\* POST /upload continues after ensureB2Ready(): lines 261-273.  A rejected
\* promise would end in the catch of line 305.
UploadReadyCont(r) ==
  /\ pc[r] = "awaitReady"
  /\ req[r].kind = "upload"
  /\ b2InitPromise \in {"resolved", "rejected"}
  /\ IF b2InitPromise = "rejected"
     THEN /\ Answer(r, ErrorResponse(500), trace[r])
          /\ UNCHANGED <<attempt, authVars, waitOn>>
     ELSE LET t == [trace[r] EXCEPT !.readySeen = TRUE, !.ready = b2Config]
          IN IF ~b2Config.enabled
             THEN /\ Answer(r, ErrorResponse(500), t)
                  /\ UNCHANGED <<attempt, authVars, waitOn>>
             ELSE UploadAttempt(r, FALSE, t)
  /\ UNCHANGED <<req, envVars, initVars, regVars, clockVars>>

\* The catch of line 127 calls attempt(true); the error caught is dropped.
Retry(r) ==
  /\ pc[r] = "retry"
  /\ UploadAttempt(r, TRUE, [trace[r] EXCEPT !.failed = "", !.failedStep = "",
                                            !.failedAttempt = 0])
  /\ UNCHANGED <<req, envVars, initVars, regVars, clockVars>>

\* ensureB2Authorized has returned: attempt calls b2.getUploadUrl, line 113.
GetUploadUrl(r) ==
  /\ pc[r] = "authorized"
  /\ pc' = [pc EXCEPT ![r] = "awaitUrl"]
  /\ trace' = [trace EXCEPT ![r].urlCalls = @ + 1]
  /\ lastCall' = [lastCall EXCEPT ![r] = NoCall]
  /\ UNCHANGED <<b2, b2AuthPromise, b2LastAuthAt, b2LastAuthResponse, authOutcome,
                 req, attempt, resp, waitOn, envVars, initVars, regVars, clockVars>>

\* The await of line 112 ends: ensureB2Authorized returns or throws.
UploadAuthCont(r) ==
  /\ pc[r] = "awaitAuth"
  /\ Settled(waitOn[r])
  /\ LET o == authOutcome[waitOn[r]]
     IN /\ AwaitEnds(r)
        /\ IF o.st = "ok"
           THEN /\ pc' = [pc EXCEPT ![r] = "authorized"]
                /\ UNCHANGED <<resp, trace>>
           ELSE FailWith(r, o.err, "authorize", attempt[r], trace[r])
  /\ UNCHANGED <<req, attempt, envVars, initVars, regVars, clockVars>>

RemoteOutcomes == {Returned(0)} \cup {Failed(e) : e \in ErrNames}

\* b2.getUploadUrl returns or fails: lines 113-116.
UrlComplete(r, o) ==
  /\ Drained
  /\ pc[r] = "awaitUrl"
  /\ IF o.st = "ok"
     THEN /\ pc' = [pc EXCEPT ![r] = "awaitUpload"]
          /\ resp' = resp
          /\ trace' = [trace EXCEPT ![r].uploadCalls = @ + 1]
     ELSE FailWith(r, o.err, "getUploadUrl", attempt[r], trace[r])
  /\ UNCHANGED <<req, attempt, waitOn, envVars, authVars, initVars, regVars, clockVars>>

\* b2.uploadFile returns or fails: lines 116-122, then lines 275-295 or the
\* catches.  The remote store holds the bytes under the storage name; the
\* record is written and the map saved (the write of the file may fail).
UploadComplete(r, o, write) ==
  /\ Drained
  /\ pc[r] = "awaitUpload"
  /\ LET i == req[r]
         fileUrl == FileUrl(b2Config.publicBaseUrl, b2Config.bucketName, TargetName(i))
         record == Record(TargetName(i), "original", fileUrl, MimeType(i), now)
         written == IF RecordsUpload(o) THEN Put(reports, Fingerprint(i), record)
                    ELSE reports
         keys == IF RecordsUpload(o) /\ Fingerprint(i) \notin DOMAIN reports
                 THEN InsertKey(keyOrder, Fingerprint(i))
                 ELSE keyOrder
     IN /\ remoteFiles' = IF o.st = "ok" THEN Put(remoteFiles, TargetName(i), i.buffer)
                          ELSE remoteFiles
        /\ reports' = written
        /\ keyOrder' = keys
        /\ computed' = IF ~RecordsUpload(o) THEN computed
                       ELSE IF i.hash = "" THEN computed \cup {Fingerprint(i)}
                       ELSE computed \ {Fingerprint(i)}
        /\ storeFile' = IF RecordsUpload(o)
                        THEN saveReports(storeFile,
                                         Stringify(loadedFrom = "array", keys, written),
                                         write)
                        ELSE storeFile
        /\ UNCHANGED <<loadedFrom, lookup>>
        /\ IF o.st = "ok"
           THEN Answer(r, UploadedResponse(i, fileUrl), [trace[r] EXCEPT !.wrote = TRUE])
           ELSE FailWith(r, o.err, "uploadFile", attempt[r], trace[r])
  /\ UNCHANGED <<req, attempt, waitOn, envVars, authVars, initVars, clockVars>>

\* The handler of request r has returned: the response has left and the
\* handler's locals are gone.
Close(r) ==
  /\ pc[r] = "answered"
  /\ pc' = [pc EXCEPT ![r] = "done"]
  /\ req' = [req EXCEPT ![r] = NoInput]
  /\ attempt' = [attempt EXCEPT ![r] = 0]
  /\ resp' = [resp EXCEPT ![r] = NoResponse]
  /\ trace' = [trace EXCEPT ![r] = NoTrace]
  /\ lastCall' = [lastCall EXCEPT ![r] = NoCall]
  /\ UNCHANGED <<b2, b2AuthPromise, b2LastAuthAt, b2LastAuthResponse, authOutcome,
                 waitOn, envVars, initVars, regVars, clockVars>>

\* Time passes between two events.
Tick(d) ==
  /\ Drained
  /\ ticks < MaxTicks
  /\ now' = now + d
  /\ ticks' = ticks + 1
  /\ UNCHANGED <<waitOn, envVars, authVars, initVars, regVars, reqVars>>

\* ------------------------------------- GET /verify, /file and /api/reports

\* A createdAt that Date cannot parse; 0 is a missing one, and a time in
\* milliseconds is a valid one.
Unparseable == -1

\* The names every object inherits from Object.prototype (the one the model
\* asks for).
InheritedNames == {"constructor"}

\* A lookup that reads the store file instead of the map in memory.
PropertyOfFile(map, hash) ==
  IF storeFile.kind = "object" /\ hash \in DOMAIN storeFile.data
  THEN [truthy |-> TRUE, fileName |-> storeFile.data[hash].fileName,
        fileUrl |-> storeFile.data[hash].fileUrl]
  ELSE [truthy |-> hash \in InheritedNames, fileName |-> <<>>, fileUrl |-> <<>>]

\* reports[hash]: the own record, or what the prototype chain holds under
\* that name (a function: truthy, without fileName or fileUrl), or undefined.
Property(map, hash) ==
  IF hash \in DOMAIN map
  THEN [truthy |-> TRUE, fileName |-> map[hash].fileName, fileUrl |-> map[hash].fileUrl]
  ELSE [truthy |-> hash \in InheritedNames, fileName |-> <<>>, fileUrl |-> <<>>]

\* The characters encodeUrl leaves as they are (those the model uses).
UrlSafe == Unreserved \cup {"/", ":", "%", "F", "A"}

\* A redirect that escapes the URL as if it were one path segment.
encodeUrlComponent(url) == encodeURIComponent(url)

RECURSIVE encodeUrl(_)
\* res.redirect sets Location to encodeUrl(url): escapes are kept, and a
\* character that may not stand in a URL is escaped.
encodeUrl(url) ==
  IF url = <<>> THEN <<>>
  ELSE (IF Head(url) \in UrlSafe THEN <<Head(url)>> ELSE PercentEscape(Head(url)))
       \o encodeUrl(Tail(url))

\* GET /verify?hash=q: lines 227-240.  The page says whether reports[hash]
\* is truthy.
Verify(q) ==
  /\ Drained
  /\ lookup' = [NoLookup EXCEPT !.op = "verify", !.hash = q, !.status = 200,
                                !.found = (q # "" /\ Property(reports, q).truthy)]
  /\ UNCHANGED <<reports, storeFile, remoteFiles, keyOrder, loadedFrom, computed,
                 waitOn, envVars, authVars, initVars, clockVars, reqVars>>

\* GET /file?hash=q: lines 313-324.
GetFile(q) ==
  /\ Drained
  /\ LET report == Property(reports, q)
     IN lookup' =
          IF q = "" THEN [NoLookup EXCEPT !.op = "file", !.hash = q, !.status = 400]
          ELSE IF ~report.truthy \/ report.fileUrl = <<>>
          THEN [NoLookup EXCEPT !.op = "file", !.hash = q, !.status = 404,
                                !.found = report.truthy]
          ELSE [NoLookup EXCEPT !.op = "file", !.hash = q, !.status = 302,
                                !.found = TRUE, !.location = encodeUrl(report.fileUrl)]
  /\ UNCHANGED <<reports, storeFile, remoteFiles, keyOrder, loadedFrom, computed,
                 waitOn, envVars, authVars, initVars, clockVars, reqVars>>

\* Lines 328-335: Object.entries(reports), each with its hash.
Entries(map, keys) ==
  [i \in 1..Len(keys) |->
     [hash |-> keys[i], fileName |-> map[keys[i]].fileName,
      status |-> map[keys[i]].status, fileUrl |-> map[keys[i]].fileUrl,
      mimeType |-> map[keys[i]].mimeType, createdAt |-> map[keys[i]].createdAt]]

\* Lines 337-338: the time of an entry; NaN when Date cannot parse it.
TimeOf(createdAt) ==
  IF createdAt = Unparseable THEN [nan |-> TRUE, ms |-> 0]
  ELSE [nan |-> FALSE, ms |-> createdAt]

\* Line 339, as Array.prototype.sort reads it: bTime - aTime, and NaN as 0.
SortOrder(a, b) ==
  LET aTime == TimeOf(a.createdAt)
      bTime == TimeOf(b.createdAt)
  IN IF aTime.nan \/ bTime.nan THEN 0 ELSE bTime.ms - aTime.ms

\* The comparator is consistent on the list: being equal and being before
\* are transitive.  Only then does the language fix the order sort gives.
Consistent(list) ==
  \A i, j, k \in 1..Len(list) :
    LET ij == SortOrder(list[i], list[j])
        jk == SortOrder(list[j], list[k])
        ik == SortOrder(list[i], list[k])
    IN /\ ij = 0 /\ jk = 0 => ik = 0
       /\ ij < 0 /\ jk <= 0 => ik < 0
       /\ ij <= 0 /\ jk < 0 => ik < 0

Orders(n) ==
  {p \in [1..n -> 1..n] : \A i, j \in 1..n : p[i] = p[j] => i = j}

\* The permutation is the stable sort of the list.
StablySorted(list, p) ==
  \A i, j \in 1..Len(list) :
    i < j => LET c == SortOrder(list[p[i]], list[p[j]])
             IN c < 0 \/ (c = 0 /\ p[i] < p[j])

\* What list.sort(..) can leave: the stable sort, or, with an inconsistent
\* comparator, an order the implementation chooses.
SortOutcomes(list) ==
  {[i \in 1..Len(list) |-> list[p[i]]] :
     p \in {q \in Orders(Len(list)) : Consistent(list) => StablySorted(list, q)}}

\* GET /api/reports: lines 327-342.
ListReports(sorted) ==
  /\ Drained
  /\ sorted \in SortOutcomes(Entries(reports, keyOrder))
  /\ lookup' = [NoLookup EXCEPT !.op = "list", !.status = 200, !.list = sorted]
  /\ UNCHANGED <<reports, storeFile, remoteFiles, keyOrder, loadedFrom, computed,
                 waitOn, envVars, authVars, initVars, clockVars, reqVars>>

\* The client has read the answer.
ReadAnswer ==
  /\ lookup.op # ""
  /\ lookup' = NoLookup
  /\ UNCHANGED <<reports, storeFile, remoteFiles, keyOrder, loadedFrom, computed,
                 waitOn, envVars, authVars, initVars, clockVars, reqVars>>

\* ------------------------------------------------------------ specification

\* The environments the process is started in: no credentials, a key id
\* without its application key, credentials without a bucket, and
\* credentials with the bucket's id and name, its id only or its name only.
Env(keyId, appKey, bucketId, bucketName, publicBase) ==
  [keyId |-> keyId, appKey |-> appKey, bucketId |-> bucketId,
   bucketName |-> bucketName, publicBase |-> publicBase]
Environments ==
  { Env(FALSE, FALSE, "bkt1", T_bucket, <<>>),
    Env(TRUE, FALSE, "bkt1", T_bucket, <<>>),
    Env(TRUE, TRUE, "", <<>>, <<>>),
    Env(TRUE, TRUE, "bkt1", T_bucket, T_cdn),
    Env(TRUE, TRUE, "bkt1", <<>>, <<>>),
    Env(TRUE, TRUE, "", T_bucket, <<>>) }

\* The state after the module is loaded: lines 62-74 and 217-218.
InitWith(environments, files, t0) ==
  /\ \E e \in environments :
       /\ b2KeyId = e.keyId
       /\ b2AppKey = e.appKey
       /\ b2BucketIdEnv = e.bucketId
       /\ b2BucketNameEnv = e.bucketName
       /\ b2PublicBaseOverride = e.publicBase
  /\ b2 = FALSE
  /\ b2Config = [enabled |-> FALSE, bucketId |-> "", bucketName |-> <<>>,
                 publicBaseUrl |-> <<>>]
  /\ b2InitPromise = "null"
  /\ b2AuthPromise = 0
  /\ b2LastAuthAt = 0
  /\ b2LastAuthResponse = 0
  /\ initPc = "none"
  /\ initDownloadUrl = <<>>
  /\ now = t0
  /\ ticks = 0
  /\ \E file \in files, write \in WriteOutcomes :
       /\ reports = loadReports(file, t0)
       /\ keyOrder = loadedKeys(file)
       /\ loadedFrom = file.kind
       /\ storeFile = saveReports(file,
                                  Stringify(file.kind = "array", loadedKeys(file),
                                            loadReports(file, t0)),
                                  write)
  /\ computed = {}
  /\ lookup = NoLookup
  /\ remoteFiles = EmptyMap
  /\ authOutcome = EmptyMap
  /\ pc = [r \in Reqs |-> "idle"]
  /\ req = [r \in Reqs |-> NoInput]
  /\ waitOn = [c \in Callers |-> 0]
  /\ attempt = [r \in Reqs |-> 0]
  /\ resp = [r \in Reqs |-> NoResponse]
  /\ trace = [r \in Reqs |-> NoTrace]
  /\ lastCall = [c \in Callers |-> NoCall]
  /\ initStats = [runs |-> 0, authStarted |-> 0, listCalls |-> 0, getCalls |-> 0,
                  failure |-> ""]

\* The process starts at time 1, without a store file.
Init == InitWith(Environments, InitialFiles, 1)

Next ==
  \/ \E r \in Reqs : \E i \in InputsOf(r) : Arrive(r, i)
  \/ \E r \in Reqs : ConfigCont(r)
  \/ \E r \in Reqs : UploadReadyCont(r)
  \/ \E r \in Reqs : Retry(r)
  \/ \E r \in Reqs : Close(r)
  \/ \E r \in Reqs : UploadAuthCont(r)
  \/ \E r \in Reqs : GetUploadUrl(r)
  \/ \E r \in Reqs, o \in RemoteOutcomes : UrlComplete(r, o)
  \/ \E r \in Reqs, o \in RemoteOutcomes, write \in WriteOutcomes : UploadComplete(r, o, write)
  \/ \E h \in InFlight :
       \E o \in {Returned(h)} \cup {Failed(e) : e \in ErrNames} : AuthComplete(h, o)
  \/ InitAuthCont
  \/ \E o \in ListOutcomes : ListComplete(o)
  \/ \E o \in GetOutcomes : GetComplete(o)
  \/ \E d \in TickSteps : Tick(d)

Spec == Init /\ [][Next]_vars

\* The event loop runs every continuation that is pending and every handler
\* to its end, and every remote call that was made returns or fails.
Fairness ==
  /\ \A r \in Reqs :
       /\ WF_vars(ConfigCont(r))
       /\ WF_vars(UploadReadyCont(r))
       /\ WF_vars(Retry(r))
       /\ WF_vars(Close(r))
       /\ WF_vars(UploadAuthCont(r))
       /\ WF_vars(GetUploadUrl(r))
       /\ WF_vars(\E o \in RemoteOutcomes : UrlComplete(r, o))
       /\ WF_vars(\E o \in RemoteOutcomes, write \in WriteOutcomes : UploadComplete(r, o, write))
  /\ WF_vars(\E h \in InFlight :
               \E o \in {Returned(h)} \cup {Failed(e) : e \in ErrNames} : AuthComplete(h, o))
  /\ WF_vars(InitAuthCont)
  /\ WF_vars(\E o \in ListOutcomes : ListComplete(o))
  /\ WF_vars(\E o \in GetOutcomes : GetComplete(o))

\* For termination the content of an upload does not matter: a request reads
\* the configuration, uploads without a file, or uploads the PDF.
LiveInputs == LaterInputs \cup {Input("upload", FALSE, <<>>, <<>>, "", "", <<>>)}

NextLive ==
  \/ \E r \in Reqs : \E i \in LiveInputs : Arrive(r, i)
  \/ \E r \in Reqs : ConfigCont(r)
  \/ \E r \in Reqs : UploadReadyCont(r)
  \/ \E r \in Reqs : Retry(r)
  \/ \E r \in Reqs : Close(r)
  \/ \E r \in Reqs : UploadAuthCont(r)
  \/ \E r \in Reqs : GetUploadUrl(r)
  \/ \E r \in Reqs, o \in RemoteOutcomes : UrlComplete(r, o)
  \/ \E r \in Reqs, o \in RemoteOutcomes, write \in WriteOutcomes : UploadComplete(r, o, write)
  \/ \E h \in InFlight :
       \E o \in {Returned(h)} \cup {Failed(e) : e \in ErrNames} : AuthComplete(h, o)
  \/ InitAuthCont
  \/ \E o \in ListOutcomes : ListComplete(o)
  \/ \E o \in GetOutcomes : GetComplete(o)
  \/ \E d \in TickSteps : Tick(d)

SpecLive == Init /\ [][NextLive]_vars /\ Fairness

\* ------------------------------------------------ the registry in service

\* The store files the process can find: none, one it cannot read, text
\* that is not JSON, the JSON of a scalar, of an array, and of a map written
\* by an earlier process: one record with a createdAt that Date cannot
\* parse, then the record of the PDF.
StoredKeys == <<"f00d", Sha256Hex(B_pdf)>>
StoredReports ==
  [k \in {"f00d", Sha256Hex(B_pdf)} |->
     IF k = "f00d"
     THEN Record(T_file, "original", FileUrl(T_download, T_bucket, T_file), "", Unparseable)
     ELSE EarlierReports[k]]
RegistryFiles ==
  { File("missing", <<>>, EmptyMap),
    File("unreadable", <<>>, EmptyMap),
    File("text", <<>>, EmptyMap),
    File("scalar", <<>>, EmptyMap),
    File("array", <<>>, EmptyMap),
    File("object", StoredKeys, StoredReports) }

\* The uploads: the PDF; other bytes under the PDF's name; other bytes with
\* the fingerprint "123abc" and a storage name of their own; the PDF under
\* another name.
RegistryInputs ==
  { Input("upload", TRUE, B_pdf, T_report, "application/pdf", "", <<>>),
    Input("upload", TRUE, B_other, T_report, "", "", <<>>),
    Input("upload", TRUE, B_other, <<>>, "", "123abc", T_nested),
    Input("upload", TRUE, B_pdf, T_report1, "", "", <<>>),
    Input("upload", TRUE, B_pdf, T_report, "application/pdf", "7", <<>>),
    Input("upload", TRUE, B_other, T_report1, "", "10", <<>>) }

\* The fingerprints the clients ask for: none, the seed key, the PDF's, a
\* name every object inherits, and one nobody uploaded.
Queries == {"", "123abc", Sha256Hex(B_pdf), "constructor", "nokey"}

\* The store is configured with the bucket's id and name and works, except
\* that an upload can fail; the process starts at time 2.
InitRegistry == InitWith({Env(TRUE, TRUE, "bkt1", T_bucket, <<>>)}, RegistryFiles, 2)

NextRegistry ==
  \/ \E r \in Reqs : \E i \in RegistryInputs : Arrive(r, i)
  \/ \E r \in Reqs : UploadReadyCont(r)
  \/ \E r \in Reqs : GetUploadUrl(r)
  \/ \E r \in Reqs : UrlComplete(r, Returned(0))
  \/ \E r \in Reqs, o \in {Returned(0), Failed("unavailable")}, write \in WriteOutcomes :
       UploadComplete(r, o, write)
  \/ \E r \in Reqs : Close(r)
  \/ \E h \in InFlight : AuthComplete(h, Returned(h))
  \/ InitAuthCont
  \/ Tick(1)
  \/ \E q \in Queries : Verify(q)
  \/ \E q \in Queries : GetFile(q)
  \/ \E sorted \in SortOutcomes(Entries(reports, keyOrder)) : ListReports(sorted)
  \/ ReadAnswer

SpecRegistry == InitRegistry /\ [][NextRegistry]_vars

\* ------------------------------------------------------------- properties

\* The callers whose call of ensureB2Authorized awaited handshake h and has
\* returned or thrown.
Served(h) == {c \in Callers : lastCall[c].h = h /\ lastCall[c].got # ""}

\* One handshake at most is in flight, it is the one in the slot, and the
\* callers served by one handshake got the same outcome.
C1_OneHandshakeInFlight ==
  /\ Cardinality(InFlight) <= 1
  /\ InFlight \subseteq {b2AuthPromise}
  /\ \A c \in Callers : waitOn[c] \in InFlight \cup {0} \/ Settled(waitOn[c])
  /\ \A c1, c2 \in Callers :
       lastCall[c1].h # 0 /\ c1 \in Served(lastCall[c1].h) /\ c2 \in Served(lastCall[c1].h)
         => /\ lastCall[c1].got = lastCall[c2].got
            /\ lastCall[c1].session = lastCall[c2].session
            /\ lastCall[c1].err = lastCall[c2].err
\* A step taken while a handshake is in flight starts none.
C1_NoSecondHandshake == InFlight # {} => InFlight' \subseteq InFlight
\* C1: at most one authorize handshake is outstanding at any time; a call of
\* ensureB2Authorized made while a handshake is in flight starts no second
\* one, and all the callers that awaited one handshake get the same outcome:
\* the same session, or the same failure.
C1_SingleFlight == []C1_OneHandshakeInFlight /\ [][C1_NoSecondHandshake]_vars

\* Two callers awaited the same handshake, one started it and one joined it,
\* and both calls have ended.
C1_Witness ==
  \E c1, c2 \in Callers :
    /\ c1 # c2
    /\ lastCall[c1].h # 0
    /\ lastCall[c1].h = lastCall[c2].h
    /\ lastCall[c1].decision = "started"
    /\ lastCall[c2].decision = "joined"
    /\ lastCall[c1].got # ""
    /\ lastCall[c2].got # ""

\* C2: with credentials and a bucket id or name configured, the calls of
\* ensureB2Ready made before a session exists start one handshake between
\* them and run the bucket resolution once, and every call returns the same
\* bucket config.
C2_InitOnce ==
  ~NotConfigured =>
    /\ initStats.runs <= 1
    /\ initStats.authStarted <= 1
    /\ initStats.listCalls <= 1
    /\ initStats.getCalls <= 1
    /\ (\E r \in Reqs : pc[r] = "awaitReady" \/ trace[r].readySeen)
         => initStats.runs = 1 /\ initStats.authStarted = 1
    /\ b2InitPromise = "pending"
         => /\ Cardinality(DOMAIN authOutcome) <= 1
            /\ \A r \in Reqs : trace[r].authStarted = 0
    /\ \A r \in Reqs : trace[r].readySeen => trace[r].ready = b2Config

\* Two requests called ensureB2Ready before the session existed, and both
\* got the config of an enabled store.
C2_Witness ==
  /\ ~NotConfigured
  /\ \A r \in Reqs : trace[r].readySeen /\ trace[r].ready.enabled
  /\ initStats.runs = 1

\* The failures that signal an expired authorization: the codes
\* expired_auth_token and bad_auth_token, and the HTTP status 401.
ExpirySignals == {"expired", "bad_code", "unauthorized"}

\* A step of request r's upload fails.
FailsNow(r) == trace[r].failed = "" /\ trace'[r].failed # ""

\* What one upload has done so far.
C3_Counts ==
  \A r \in Reqs :
    /\ trace[r].attempts <= 2
    /\ trace[r].attempts = attempt[r]
    /\ trace[r].authStarted <= 2
    /\ trace[r].urlCalls <= 2
    /\ trace[r].uploadCalls <= 2
    /\ trace[r].forcedCalls = (IF attempt[r] = 2 THEN 1 ELSE 0)
    /\ pc[r] = "retry" => attempt[r] = 1 /\ trace[r].failed \in ExpirySignals
\* What a step of an upload leads to.
C3_Steps ==
  \A r \in Reqs :
    /\ FailsNow(r) /\ attempt[r] = 1 /\ trace'[r].failed \in ExpirySignals
         => pc'[r] = "retry"
    /\ pc[r] = "retry" /\ pc'[r] # "retry"
         => /\ attempt'[r] = 2
            /\ lastCall'[r].force
            /\ lastCall'[r].decision \in {"started", "joined"}
            /\ pc'[r] = "awaitAuth"
            /\ trace'[r].urlCalls = trace[r].urlCalls
    /\ FailsNow(r) /\ attempt[r] = 2
         => pc'[r] = "answered" /\ resp'[r].status = 502
    /\ attempt[r] = 2 /\ pc[r] = "awaitUpload" /\ ~FailsNow(r) /\ pc'[r] # pc[r]
         => pc'[r] = "answered" /\ resp'[r].status = 200
\* C3: an upload whose first attempt fails with an expiry signal makes one
\* retry, which starts with a forced re-authorization; the upload succeeds
\* when the retry does and fails when the retry fails; one upload makes at
\* most 2 attempts, 2 handshakes, 2 getUploadUrl calls and 2 uploadFile calls.
C3_OneRetry == []C3_Counts /\ [][C3_Steps]_vars

\* An upload was answered 200 by its second attempt, after two handshakes,
\* two getUploadUrl calls and two uploadFile calls.
C3_Witness ==
  \E r \in Reqs :
    /\ resp[r].status = 200
    /\ attempt[r] = 2
    /\ trace[r].authStarted = 2
    /\ trace[r].urlCalls = 2
    /\ trace[r].uploadCalls = 2

\* C4: the retry follows only a failure of the getUploadUrl step or of the
\* uploadFile step with an expiry signal; a first attempt that fails in
\* another way, a failed handshake included, is not retried.
C4_RetryOnlyAfterRemoteStep ==
  \A r \in Reqs :
    pc[r] = "retry"
      => /\ trace[r].failedStep \in {"getUploadUrl", "uploadFile"}
         /\ trace[r].failed \in ExpirySignals

\* Caller c calls ensureB2Authorized in this step.
CallsNow(c) ==
  IF c = InitCaller THEN initPc = "none" /\ initPc' = "awaitAuth"
  ELSE attempt'[c] = attempt[c] + 1

\* What a call of ensureB2Authorized decides, against the state it is made in.
C5_Calls ==
  \A c \in Callers :
    CallsNow(c) =>
      LET k == lastCall'[c]
          fresh == b2LastAuthResponse # 0 /\ now - b2LastAuthAt < 23 * 3600 * 1000
      IN /\ ~k.force => (k.decision = "cached" <=> fresh)
         /\ k.force => k.decision # "cached"
         /\ k.decision = "cached"
              => /\ k.got = "ok"
                 /\ k.session = b2LastAuthResponse
                 /\ authOutcome' = authOutcome
         /\ k.decision # "cached" => k.decision \in {"started", "joined"}
         /\ k.decision = "started" <=> InFlight' # InFlight
\* What a forced call has returned.
C5_Forced ==
  \A c \in Callers :
    lastCall[c].force /\ lastCall[c].got = "ok"
      => lastCall[c].session # lastCall[c].cachedResp
\* C5: a call of ensureB2Authorized(false) returns the cached session, and
\* starts no handshake, exactly when a session exists and is less than 23
\* hours old; otherwise it starts a handshake or joins the one in flight; a
\* forced call never returns the session that was cached when it was made.
C5_CacheTtl == []C5_Forced /\ [][C5_Calls]_vars

\* A non-forced call made when the cached session was exactly 23 hours old
\* has started a handshake and awaits it.
C5_Witness ==
  \E r \in Reqs :
    /\ ~lastCall[r].force
    /\ lastCall[r].decision = "started"
    /\ lastCall[r].cachedResp = b2LastAuthResponse
    /\ b2LastAuthResponse # 0
    /\ waitOn[r] \in InFlight
    /\ now - b2LastAuthAt = 23 * 3600 * 1000

\* C6: ensureB2Ready never fails to its caller.  Without complete
\* credentials its config has enabled = FALSE and no remote call is made;
\* when the handshake or the bucket discovery fails, its config has
\* enabled = FALSE and the promise is fulfilled.
C6_ReadyNeverFails ==
  /\ b2InitPromise # "rejected"
  /\ ~(b2KeyId /\ b2AppKey)
       => /\ ~b2Config.enabled
          /\ ~b2
          /\ authOutcome = EmptyMap
          /\ initStats.authStarted = 0
          /\ initStats.listCalls = 0
          /\ initStats.getCalls = 0
          /\ b2InitPromise \in {"null", "resolved"}
  /\ initStats.failure # "" => b2InitPromise = "resolved" /\ ~b2Config.enabled
  /\ \A r \in Reqs :
       /\ trace[r].readySeen /\ (~(b2KeyId /\ b2AppKey) \/ initStats.failure # "")
            => ~trace[r].ready.enabled
       /\ pc[r] = "answered" => trace[r].sent = 1

\* A request got the config of a store whose bucket discovery failed.
C6_Witness ==
  \E r \in Reqs :
    /\ trace[r].readySeen
    /\ ~trace[r].ready.enabled
    /\ initStats.failure = "discovery"
    /\ initStats.getCalls = 1

\* C7: whenever the bucket config has enabled = TRUE, the credentials are
\* present and both the bucket id and the bucket name are non-empty.
C7_EnabledHasBucket ==
  b2Config.enabled
    => /\ b2KeyId /\ b2AppKey
       /\ b2Config.bucketId # ""
       /\ b2Config.bucketName # <<>>

\* The status POST /upload answers request r with, by the order of its tests.
UploadStatus(r) ==
  IF ~req[r].hasFile THEN 400
  ELSE IF ~trace[r].ready.enabled THEN 500
  ELSE IF trace[r].failed # "" THEN 502
  ELSE 200

\* C8: every POST /upload gets one response: 400 without a file, else 500
\* when the store is not enabled, else 502 when the upload fails, else 200
\* with hash, fileName, fileUrl, mimeType and size.
C8_UploadResponse ==
  \A r \in Reqs :
    req[r].kind = "upload" /\ pc[r] = "answered"
      => /\ trace[r].sent = 1
         /\ resp[r].status = UploadStatus(r)
         /\ resp[r].status \in {400, 500} => trace[r].uploadCalls = 0
         /\ resp[r].status = 400 => ~trace[r].readySeen
         /\ resp[r].status = 200
              => /\ {"hash", "fileName", "fileUrl", "mimeType", "size"} \subseteq resp[r].keys
                 /\ resp[r].hash = Fingerprint(req[r])
                 /\ resp[r].fileName = TargetName(req[r])
                 /\ resp[r].mimeType = MimeType(req[r])
                 /\ resp[r].size = Len(req[r].buffer)

\* C9: an upload without a buffer, or with an empty one, is answered 400
\* and reaches neither ensureB2Ready nor the remote store nor the registry.
C9_EmptyRejected ==
  \A r \in Reqs :
    req[r].kind = "upload" /\ Len(req[r].buffer) = 0
      => /\ pc[r] \in {"idle", "answered", "done"}
         /\ pc[r] = "answered" => resp[r].status = 400
         /\ ~trace[r].readySeen
         /\ trace[r].uploadCalls = 0
         /\ ~trace[r].wrote

\* The steps that change the registry.
C10_Steps ==
  /\ reports' # reports \/ storeFile' # storeFile
       => \E r \in Reqs :
            /\ pc[r] = "awaitUpload"
            /\ pc'[r] = "answered"
            /\ resp'[r].status = 200
            /\ Fingerprint(req[r]) \in DOMAIN reports'
            /\ TargetName(req[r]) \in DOMAIN remoteFiles'
  /\ \A r \in Reqs :
       pc[r] # "answered" /\ pc'[r] = "answered" /\ resp'[r].status \in {400, 500, 502}
         => reports' = reports /\ storeFile' = storeFile
  /\ DOMAIN reports \subseteq DOMAIN reports'
\* C10: the registry map and the store file change only in the step in which
\* an upload's remote upload has returned and the request is answered 200; a
\* step that answers 400, 500 or 502 leaves both as they were, and no step
\* removes a fingerprint.
C10_RegistryFrame == [][C10_Steps]_vars

\* An upload whose remote upload failed was answered 502, and the registry
\* has no record of its fingerprint.
C10_Witness ==
  \E r \in Reqs :
    /\ resp[r].status = 502
    /\ trace[r].uploadCalls >= 1
    /\ trace[r].failedStep = "uploadFile"
    /\ Fingerprint(req[r]) \notin DOMAIN reports

\* Request r's upload writes its record in this step.
WritesNow(r) == pc[r] = "awaitUpload" /\ pc'[r] = "answered" /\ resp'[r].status = 200

\* What the write of an upload leaves in the registry.
C11_Write ==
  \A r \in Reqs :
    WritesNow(r) =>
      LET i == req[r]
          f == Fingerprint(i)
      IN /\ DOMAIN reports' = DOMAIN reports \cup {f}
         /\ reports'[f] = Record(TargetName(i), "original", resp'[r].fileUrl,
                                 MimeType(i), now)
         /\ \A k \in DOMAIN reports \ {f} : reports'[k] = reports[k]
\* C11: the registry is last-write-wins with full overwrite: after a write
\* under fingerprint f the record of f is the one just written, whole, with
\* nothing of an earlier record of f; of two uploads that reuse f, the record
\* is that of the upload whose write came last.
C11_LastWriteWins == [][C11_Write]_vars

\* An upload has just written its record over the record of an earlier
\* upload of the same bytes under another name.
C11_Witness ==
  \E r \in Reqs :
    /\ pc[r] = "answered"
    /\ resp[r].status = 200
    /\ req[r].hash = ""
    /\ reports[Fingerprint(req[r])].fileName = TargetName(req[r])
    /\ \E n \in DOMAIN remoteFiles :
         n # TargetName(req[r]) /\ remoteFiles[n] = req[r].buffer

\* The store files that do not hold the serialization of a map.
NotAMap == {"missing", "unreadable", "text", "scalar", "array"}

\* C12: loadReports on a missing, unreadable or malformed store file gives
\* a non-empty map with the seed record under "123abc", so that after
\* startup a lookup of "123abc" finds a record.
C12_SeedOnBadFile ==
  loadedFrom \in NotAMap => "123abc" \in DOMAIN reports /\ keyOrder # <<>>

\* The store file does not hold the record the map has for fingerprint f.
Unsaved(f) ==
  \/ storeFile.kind # "object"
  \/ f \notin DOMAIN storeFile.data
  \/ storeFile.data[f] # reports[f]

\* An upload whose remote upload has returned answers 200 and the map holds
\* its record, whether the file was written or not.
C13_Write ==
  \A r \in Reqs :
    pc[r] = "awaitUpload" /\ ~FailsNow(r) /\ pc'[r] # pc[r]
      => /\ resp'[r].status = 200
         /\ Fingerprint(req[r]) \in DOMAIN reports'
         /\ reports'[Fingerprint(req[r])].fileName = TargetName(req[r])
         /\ reports'[Fingerprint(req[r])].fileUrl = resp'[r].fileUrl
\* A lookup answers from the map in memory.
C13_Lookup ==
  lookup.hash \in DOMAIN reports =>
    /\ lookup.op = "verify" => lookup.found
    /\ lookup.op = "file" /\ reports[lookup.hash].fileUrl # <<>>
         => lookup.status = 302 /\ lookup.location = reports[lookup.hash].fileUrl
\* C13: a failure to write the store file during a put is swallowed: the
\* upload is answered 200, the map in memory holds the new record, and every
\* later lookup of the fingerprint returns the new record although the file
\* was not updated.
C13_PersistFailureSwallowed == []C13_Lookup /\ [][C13_Write]_vars

\* GET /file has redirected to the URL of a record that an upload of this
\* process wrote and that the store file does not hold.
C13_Witness ==
  /\ lookup.op = "file"
  /\ lookup.status = 302
  /\ lookup.hash \in DOMAIN reports
  /\ reports[lookup.hash].createdAt >= 2
  /\ Unsaved(lookup.hash)

\* The answer of GET /file for the hash it was asked.
C14_Answer ==
  lookup.op = "file" =>
    IF lookup.hash = "" THEN lookup.status = 400
    ELSE IF lookup.hash \notin DOMAIN reports THEN lookup.status = 404
    ELSE IF reports[lookup.hash].fileUrl = <<>> THEN lookup.status = 404
    ELSE lookup.status = 302 /\ lookup.location = reports[lookup.hash].fileUrl
\* A step that answers GET /file changes nothing but the answer: it starts
\* no remote call and leaves the registry, the store file and the remote
\* store as they are.
C14_Frame ==
  lookup'.op = "file" /\ lookup' # lookup =>
    UNCHANGED <<reports, storeFile, remoteFiles, keyOrder, waitOn,
                authVars, initVars, reqVars>>
\* C14: GET /file answers 400 without a hash, 404 when the hash has no record
\* or its record has no file URL (the seed "123abc" among them), and else 302
\* to exactly the stored file URL; it never contacts the remote store and
\* never changes the registry.
C14_FileRedirect == []C14_Answer /\ [][C14_Frame]_vars

\* GET /file has answered 404 for the seed record, which is in the registry
\* and has no file URL.
C14_Witness ==
  /\ lookup.op = "file"
  /\ lookup.hash = "123abc"
  /\ lookup.status = 404
  /\ "123abc" \in DOMAIN reports
  /\ reports["123abc"].fileUrl = <<>>

\* The entry's createdAt is a time (neither missing nor unparseable).
ValidTime(e) == e.createdAt > 0

\* C15: GET /api/reports returns every record of the registry exactly once,
\* ordered by createdAt descending, and the records whose createdAt is
\* missing or unparseable come after all the records with a valid one.
C15_ListOrder ==
  lookup.op = "list" =>
    LET list == lookup.list
        n == Len(list)
    IN /\ n = Cardinality(DOMAIN reports)
       /\ \A k \in DOMAIN reports : \E i \in 1..n : list[i].hash = k
       /\ \A i, j \in 1..n :
            i < j =>
              /\ ValidTime(list[i]) /\ ValidTime(list[j])
                   => list[i].createdAt >= list[j].createdAt
              /\ ValidTime(list[j]) => ValidTime(list[i])

\* C17: GET /verify reports a fingerprint as found only if the registry
\* holds a record under it: the seed key, a key loaded at startup, or the
\* fingerprint of an earlier successful upload.  A string that was never
\* uploaded, such as "constructor", is reported as not found.
C17_VerifySound ==
  lookup.op = "verify" /\ lookup.found => lookup.hash \in DOMAIN reports

\* C18: for a record written by an upload that supplied no fingerprint, the
\* bytes the remote store holds under the record's storage name hash to the
\* record's fingerprint, also after later uploads of other content under the
\* same name.
C18_ContentIntegrity ==
  \A k \in computed :
    /\ reports[k].fileName \in DOMAIN remoteFiles
    /\ Sha256Hex(remoteFiles[reports[k].fileName]) = k

\* The first run of ensureB2Ready has ended disabled because the handshake
\* or the bucket discovery failed.
InitFailed == initPc = "done" /\ initStats.failure # ""

\* After the failed run no step runs ensureB2Ready's body again or starts a
\* handshake: the configuration, the promise and the counts of the remote
\* calls stay as they are.
C19_Steps ==
  InitFailed =>
    /\ UNCHANGED <<b2Config, b2InitPromise, initPc, initDownloadUrl, initStats>>
    /\ UNCHANGED <<b2AuthPromise, b2LastAuthAt, b2LastAuthResponse, authOutcome>>
    /\ \A r \in Reqs : trace'[r].attempts = trace[r].attempts
\* After the failed run the configuration is disabled and every upload that
\* carries a file is answered 500.
C19_Disabled ==
  InitFailed =>
    /\ ~b2Config.enabled
    /\ b2InitPromise = "resolved"
    /\ \A r \in Reqs :
         pc[r] = "answered" /\ req[r].kind = "upload" /\ ~NoFile(req[r])
           => resp[r].status = 500 /\ trace[r].attempts = 0
\* C19: the result of ensureB2Ready is fixed after its first completion: once
\* the first call has resolved with enabled = false because the handshake or
\* the bucket discovery failed, every later call returns enabled = false
\* without a further handshake or discovery, and every later upload is
\* answered 500.
C19_ReadyFixed == []C19_Disabled /\ [][C19_Steps]_vars

\* The second request, an upload with a file, has been answered 500 after the
\* run of ensureB2Ready that the first request started failed in its
\* handshake; ensureB2Ready has run once.
C19_Witness ==
  /\ InitFailed
  /\ initStats.failure = "authorize"
  /\ initStats.runs = 1
  /\ pc[1] = "done"
  /\ pc[2] = "answered"
  /\ req[2].kind = "upload"
  /\ ~NoFile(req[2])
  /\ resp[2].status = 500

\* A handshake fails in this step.
HandshakeFailsNow ==
  \E h \in InFlight : h \in DOMAIN authOutcome' /\ authOutcome'[h].st = "fail"

\* The failing handshake keeps the cached session and its time and clears
\* the slot.
C20_Failure ==
  HandshakeFailsNow =>
    /\ b2LastAuthResponse' = b2LastAuthResponse
    /\ b2LastAuthAt' = b2LastAuthAt
    /\ b2AuthPromise' = 0
\* With the slot clear a forced call starts a new handshake, and a call that
\* is not forced returns the session that is cached, without a handshake,
\* while less than 23 hours have passed since that session was issued.
C20_NextCalls ==
  \A c \in Callers :
    CallsNow(c) /\ b2AuthPromise = 0 =>
      LET k == lastCall'[c]
      IN /\ k.force
              => /\ k.decision = "started"
                 /\ b2AuthPromise' # 0
                 /\ b2AuthPromise' \in InFlight' \ InFlight
         /\ ~k.force /\ b2LastAuthResponse # 0 /\ now - b2LastAuthAt < 23 * 3600 * 1000
              => /\ k.decision = "cached"
                 /\ k.session = b2LastAuthResponse
                 /\ InFlight' = InFlight
                 /\ b2AuthPromise' = 0
\* C20: a failed handshake leaves the cached session and the time it was
\* issued unchanged and clears the in-flight slot: the next forced call
\* starts a new handshake, and a call that is not forced and is made within
\* 23 hours of the earlier issuance returns the earlier session without a
\* handshake, also when that session's token was just rejected as expired.
C20_FailedHandshake ==
  [][C20_Failure]_vars /\ [][C20_NextCalls]_vars

\* The forced handshake of a retry has failed; the session that was cached
\* when the retry called is still cached and less than 23 hours old, and the
\* slot is clear.
C20_Witness ==
  \E r \in Reqs :
    /\ pc[r] = "answered"
    /\ trace[r].failedStep = "authorize"
    /\ trace[r].failedAttempt = 2
    /\ lastCall[r].force
    /\ lastCall[r].got = "fail"
    /\ lastCall[r].cachedResp # 0
    /\ b2LastAuthResponse = lastCall[r].cachedResp
    /\ now - b2LastAuthAt < B2_AUTH_TTL_MS
    /\ b2AuthPromise = 0

\* The remote calls an upload has made.
C16_Bounded ==
  \A r \in Reqs :
    /\ trace[r].attempts <= 2
    /\ trace[r].authStarted <= trace[r].attempts
    /\ trace[r].urlCalls <= trace[r].attempts
    /\ trace[r].uploadCalls <= trace[r].urlCalls
    /\ pc[r] = "answered" /\ req[r].kind = "upload"
         => resp[r].status \in {200, 400, 500, 502} /\ trace[r].sent = 1
\* An upload that has arrived is answered.
C16_Answered ==
  \A r \in Reqs :
    (pc[r] \notin {"idle", "done"} /\ req[r].kind = "upload")
      ~> (pc[r] = "answered" /\ resp[r].status # 0)
\* C16: every upload terminates: if every remote call returns or fails, every
\* POST /upload gets a response, after at most two attempts with at most one
\* handshake, one getUploadUrl and one uploadFile each, also when it waits
\* on the init or the handshake another request started.
C16_UploadTerminates == []C16_Bounded /\ C16_Answered

\* The second upload has been answered after it joined the handshake that
\* the retry of the first upload started.
C16_Witness ==
  /\ pc[2] = "answered"
  /\ req[2].kind = "upload"
  /\ resp[2].status \in {200, 502}
  /\ trace[2].attempts = 2
  /\ lastCall[2].decision = "joined"

====
